---- MODULE Spec2Model ----
(***************************************************************************)
(* A model of local-server/kodi-douban-scraper-2in1.py:                    *)
(*   - get_title_from_filename  (the filename normalizer),                 *)
(*   - the candidate loop of GetSearchResults (the result ranker),         *)
(*   - cache_get over the sqlite tables made by get_db (the cache store).  *)
(* Text is a sequence of one-character strings; a Python value that may   *)
(* be None is a sequence of length 0 (None) or 1 (the value).             *)
(*                                                                         *)
(* Specifications:                                                         *)
(*   NormSpec  get_title_from_filename on a filename, then on its title;   *)
(*   RankSpec  GetSearchResults on a filename and the upstream candidates; *)
(*   Spec      cache_get called by requests that are handled concurrently; *)
(*   SeqSpec   cache_get called by requests handled one after another.     *)
(***************************************************************************)
EXTENDS Integers, Sequences, FiniteSets, Bags, TLC

VARIABLES
    filename,   \* get_title_from_filename: the argument
    parsed,     \* its return value (title, year, season, episode)
    reparsed,   \* its return value on parsed.title
    npc,        \* "input" | "parsed" | "reparsed" | "off"
    rfile,      \* GetSearchResults: the filename of the request
    value,      \* value['subjects']: the candidates the upstream search gave
    ranked,     \* the outcome of the candidate loop
    rpc,        \* "input" | "done" | "off"
    cache,      \* table cache: key -> value (text), as committed
    stats,      \* table stats: key -> value (int), as committed
    writer,     \* the request whose connection holds the write lock, or 0
    pending,    \* table stats inside the writer's open transaction
    pc,         \* per request: "idle" | "selected" | "counted" |
                \*              "fetching" | "done" | "off"
    req,        \* per request: the arguments key and type of cache_get
    row,        \* per request: the row read by line 72
    resp,       \* per request: r, what func() returned
    ret,        \* per request: what cache_get returned or raised
    calls,      \* history: the lookups made
    hits,       \* history: the lookups that found their key stored
    batch,      \* history, per key: fetches and writes made by the
                \* lookups of the current run of overlapping lookups
    first,      \* history, per key: the first value a lookup returned
    lastFailed, \* history, per key: the last fetch or decoding raised
    hist        \* history, per request: the table, first[key] and
                \* lastFailed[key] when it began; whether it called func

nvars == <<filename, parsed, reparsed, npc>>

rvars == <<rfile, value, ranked, rpc>>

cvars == <<cache, stats, writer, pending, pc, req, row, resp, ret,
           calls, hits, batch, first, lastFailed, hist>>

vars == <<nvars, rvars, cvars>>

----------------------------------------------------------------------------
(* Python values *)

None == <<>>

Some(x) == <<x>>

Min(a, b) == IF a <= b THEN a ELSE b

\* s[:n] for 0 <= n
Prefix(s, n) == SubSeq(s, 1, Min(n, Len(s)))

\* str.find: the 0-based index of the first occurrence of sub in s, or -1
Find(s, sub) ==
    LET at == {i \in 1..(Len(s) - Len(sub) + 1) :
                    SubSeq(s, i, i + Len(sub) - 1) = sub}
    IN  IF at = {} THEN -1
        ELSE (CHOOSE i \in at : \A j \in at : i <= j) - 1

\* the "in" operator on str
Contains(s, sub) == Find(s, sub) # -1

UpperCase ==
    <<"A", "B", "C", "D", "E", "F", "G", "H", "I", "J", "K", "L", "M",
      "N", "O", "P", "Q", "R", "S", "T", "U", "V", "W", "X", "Y", "Z">>

LowerCase ==
    <<"a", "b", "c", "d", "e", "f", "g", "h", "i", "j", "k", "l", "m",
      "n", "o", "p", "q", "r", "s", "t", "u", "v", "w", "x", "y", "z">>

\* str.lower on one character
LowerChar(c) ==
    IF \E i \in 1..Len(UpperCase) : UpperCase[i] = c
    THEN LowerCase[CHOOSE i \in 1..Len(UpperCase) : UpperCase[i] = c]
    ELSE c

Digits == <<"0", "1", "2", "3", "4", "5", "6", "7", "8", "9">>

IsDigit(c) == \E i \in 1..Len(Digits) : Digits[i] = c

DigitVal(c) == (CHOOSE i \in 1..Len(Digits) : Digits[i] = c) - 1

RECURSIVE DecimalValue(_)
\* the value of a non-empty run of decimal digits
DecimalValue(s) ==
    IF s = <<>> THEN 0
    ELSE 10 * DecimalValue(SubSeq(s, 1, Len(s) - 1)) + DigitVal(s[Len(s)])

AllDigits(s) == s # <<>> /\ \A i \in 1..Len(s) : IsDigit(s[i])

\* int(s): Some(n), or None where Python raises ValueError.  Over the
\* model's alphabet the accepted forms are digits and "-" digits.
PyInt(s) ==
    IF AllDigits(s) THEN Some(DecimalValue(s))
    ELSE IF s # <<>> /\ s[1] = "-" /\ AllDigits(Tail(s))
         THEN Some(0 - DecimalValue(Tail(s)))
         ELSE None

----------------------------------------------------------------------------
(* get_title_from_filename *)

CLEAR_SUFFIX ==
    << <<"r", "e", "p", "a", "c", "k">>,
       <<"u", "n", "r", "a", "t", "e", "d">>,
       <<"4", "8", "0", "p">>,
       <<"7", "2", "0", "p">>,
       <<"1", "0", "8", "0", "i">>,
       <<"1", "0", "8", "0", "p">>,
       <<"4", "k">>,
       <<"w", "e", "b">>,
       <<"w", "e", "b", "-", "d", "l">>,
       <<"b", "l", "u", "r", "a", "y">>,
       <<"b", "l", "u", "-", "r", "a", "y">>,
       <<"h", "d", "t", "v">>,
       <<"d", "d", "5", ".", "1">>,
       <<"d", "t", "s">>,
       <<"d", "d", "p", "5", ".", "1">>,
       <<"a", "v", "c">>,
       <<"x", "2", "6", "4">>,
       <<"x", ".", "2", "6", "4">>,
       <<"h", "2", "6", "4">>,
       <<"h", ".", "2", "6", "4">> >>

YEAR_MIN == 1900

YEAR_MAX == 2100

\* filename.lower().replace(' ', '.')
CanonicalName(f) ==
    [i \in 1..Len(f) |-> IF LowerChar(f[i]) = " " THEN "." ELSE LowerChar(f[i])]

\* the last index of the maximal run of digits of s that starts at i
DigitRunEnd(s, i) ==
    CHOOSE k \in i..Len(s) :
        /\ \A j \in i..k : IsDigit(s[j])
        /\ (k = Len(s) \/ ~IsDigit(s[k + 1]))

\* REGEX_SEASON_EPISODE.search(name): None, or the leftmost match of
\* '\.s([0-9]+)(e([0-9]+))?' with its start (0-based) and groups 1 and 3
REGEX_SEASON_EPISODE(name) ==
    LET starts == {i \in 1..(Len(name) - 2) :
                      name[i] = "." /\ name[i + 1] = "s" /\ IsDigit(name[i + 2])}
    IN  IF starts = {} THEN None
        ELSE LET i == CHOOSE a \in starts : \A b \in starts : a <= b
                 k == DigitRunEnd(name, i + 2)
                 hasE == /\ k + 2 <= Len(name)
                         /\ name[k + 1] = "e"
                         /\ IsDigit(name[k + 2])
             IN  Some([start   |-> i - 1,
                       season  |-> SubSeq(name, i + 2, k),
                       episode |-> IF hasE
                                   THEN Some(SubSeq(name, k + 2,
                                                    DigitRunEnd(name, k + 2)))
                                   ELSE None])

\* lines 171-179: end after the season/episode search, without the cut
EndAfterMatchNoCut(name, match) == Len(name)

\* lines 171-179: end after the season/episode search
EndAfterMatch(name, match) ==
    IF match # None THEN Min(Len(name), match[1].start) ELSE Len(name)

RECURSIVE EndAfterSuffixes(_, _, _)
\* lines 181-184: the loop over CLEAR_SUFFIX, from its i-th entry
EndAfterSuffixes(name, end, i) ==
    IF i > Len(CLEAR_SUFFIX) THEN end
    ELSE LET idx == Find(name, CLEAR_SUFFIX[i])
         IN  EndAfterSuffixes(name,
                              IF idx # -1 THEN Min(end, idx) ELSE end,
                              i + 1)

RECURSIVE SplitFrom(_, _, _)
\* str.split() with " " the only whitespace: cur is the token being read
SplitFrom(s, i, cur) ==
    IF i > Len(s) THEN (IF cur = <<>> THEN <<>> ELSE <<cur>>)
    ELSE IF s[i] = " "
         THEN (IF cur = <<>> THEN <<>> ELSE <<cur>>) \o SplitFrom(s, i + 1, <<>>)
         ELSE SplitFrom(s, i + 1, Append(cur, s[i]))

\* s.replace('.', ' ').strip().split()
SplitName(s) ==
    SplitFrom([i \in 1..Len(s) |-> IF s[i] = "." THEN " " ELSE s[i]], 1, <<>>)

RECURSIVE JoinSpace(_)
\* ' '.join(tokens)
JoinSpace(tokens) ==
    IF tokens = <<>> THEN <<>>
    ELSE IF Len(tokens) = 1 THEN tokens[1]
         ELSE tokens[1] \o <<" ">> \o JoinSpace(Tail(tokens))

\* lines 187-192: year = int(split[-1]) when there is more than one token
YearOf(split) ==
    IF Len(split) > 1 THEN PyInt(split[Len(split)]) ELSE None

get_title_from_filename(f) ==
    LET name    == CanonicalName(f)
        match   == REGEX_SEASON_EPISODE(name)
        season  == IF match # None THEN Some(DecimalValue(match[1].season))
                   ELSE None
        episode == IF match # None /\ match[1].episode # None
                   THEN Some(DecimalValue(match[1].episode[1]))
                   ELSE None
        end     == EndAfterSuffixes(name, EndAfterMatch(name, match), 1)
        split   == SplitName(Prefix(name, end))
        year    == YearOf(split)
        kept    == IF year # None /\ YEAR_MIN <= year[1] /\ year[1] <= YEAR_MAX
                   THEN SubSeq(split, 1, Len(split) - 1)
                   ELSE split
    IN  [title |-> JoinSpace(kept), year |-> year,
         season |-> season, episode |-> episode]

----------------------------------------------------------------------------
(* GetSearchResults, lines 212-227: the year filter and the season        *)
(* partition.  A title is a sequence of glyphs; the numerals are spelled  *)
(* in pinyin: "di" and "ji" are the two glyphs that bracket the numeral   *)
(* of a season marker, "ling" .. "shi" the glyphs of 0 .. 10.             *)

DIGITS_TO_CHINESE_NUMBER ==
    << <<"ling">>, <<"yi">>, <<"er">>, <<"san">>, <<"si">>, <<"wu">>,
       <<"liu">>, <<"qi">>, <<"ba">>, <<"jiu">>, <<"shi">>,
       <<"shi", "yi">>, <<"shi", "er">>, <<"shi", "san">>, <<"shi", "si">>,
       <<"shi", "wu">>, <<"shi", "liu">>, <<"shi", "qi">>, <<"shi", "ba">>,
       <<"shi", "jiu">> >>

\* line 222: DIGITS_TO_CHINESE_NUMBER[season] raises IndexError
SeasonIndexError(season) == season >= Len(DIGITS_TO_CHINESE_NUMBER)

\* line 222: the marker of a season the table holds
SeasonMarker(season) ==
    <<"di">> \o DIGITS_TO_CHINESE_NUMBER[season + 1] \o <<"ji">>

\* lines 214-217: int(subject['year']), None on any exception
SubjectYear(subject) ==
    IF subject.hasYear THEN PyInt(subject.year) ELSE None

\* line 218: the candidate is kept
YearCompatible(subject, year) ==
    LET sy == SubjectYear(subject)
    IN  sy = None \/ year = None
           \/ (sy[1] - 1 <= year[1] /\ year[1] <= sy[1] + 1)

\* lines 224-227: appendleft or append on the deque
Place(subjects, subject, prepend) ==
    IF prepend THEN <<subject>> \o subjects ELSE Append(subjects, subject)

RECURSIVE RankFrom(_, _, _, _, _)
\* lines 213-227: the loop from its i-th candidate with the deque so far
RankFrom(cands, i, subjects, year, season) ==
    IF i > Len(cands) THEN [error |-> FALSE, subjects |-> subjects]
    ELSE IF ~YearCompatible(cands[i], year)
         THEN RankFrom(cands, i + 1, subjects, year, season)
         ELSE IF season # None /\ SeasonIndexError(season[1])
              THEN [error |-> TRUE, subjects |-> <<>>]
              ELSE RankFrom(cands, i + 1,
                            Place(subjects, cands[i],
                                  /\ season # None
                                  /\ Contains(cands[i].title,
                                              SeasonMarker(season[1]))),
                            year, season)

\* lines 207-227 of GetSearchResults on the upstream's candidates
GetSearchResults(f, cands) ==
    LET q == get_title_from_filename(f)
    IN  RankFrom(cands, 1, <<>>, q.year, q.season)


----------------------------------------------------------------------------
(* json.loads / r.json() and json.dumps(value, indent=2), lines 78, 88-89. *)
(* A JSON value is [t |-> tag, v |-> payload]; a dict is the sequence of  *)
(* its (key, value) pairs in insertion order.  Numbers are integers.      *)

JNull == [t |-> "null", v |-> <<>>]

JBool(b) == [t |-> "bool", v |-> b]

JInt(n) == [t |-> "int", v |-> n]

JStr(s) == [t |-> "str", v |-> s]

JList(items) == [t |-> "list", v |-> items]

JDict(pairs) == [t |-> "dict", v |-> pairs]

ParseFail == [ok |-> FALSE, val |-> JNull, pos |-> 0]

Parsed(val, pos) == [ok |-> TRUE, val |-> val, pos |-> pos]

RECURSIVE SkipWs(_, _)
\* the first index from i on that holds no JSON whitespace
SkipWs(s, i) ==
    IF i <= Len(s) /\ s[i] \in {" ", "\n"} THEN SkipWs(s, i + 1) ELSE i

\* s[i:].startswith(word)
StartsWithAt(s, i, word) ==
    /\ i + Len(word) - 1 <= Len(s)
    /\ SubSeq(s, i, i + Len(word) - 1) = word

\* dict[key] = val: a repeated key keeps its place and takes the new value
DictSet(pairs, key, val) ==
    IF \E n \in 1..Len(pairs) : pairs[n].k = key
    THEN [n \in 1..Len(pairs) |->
             IF pairs[n].k = key THEN [k |-> key, v |-> val] ELSE pairs[n]]
    ELSE Append(pairs, [k |-> key, v |-> val])

RECURSIVE ParseString(_, _, _)
\* the scanner of a string from the character after its opening quote
ParseString(s, i, acc) ==
    IF i > Len(s) \/ s[i] = "\n" THEN ParseFail
    ELSE IF s[i] = "\"" THEN Parsed(JStr(acc), i + 1)
    ELSE IF s[i] = "\\"
         THEN IF i + 1 > Len(s) THEN ParseFail
              ELSE IF s[i + 1] \in {"\"", "\\"}
                   THEN ParseString(s, i + 2, Append(acc, s[i + 1]))
                   ELSE IF s[i + 1] = "n"
                        THEN ParseString(s, i + 2, Append(acc, "\n"))
                        ELSE ParseFail
         ELSE ParseString(s, i + 1, Append(acc, s[i]))

\* the scanner of an integer at i: '-?(0|[1-9][0-9]*)'
ParseNumber(s, i) ==
    LET d == IF s[i] = "-" THEN i + 1 ELSE i
    IN  IF d > Len(s) \/ ~IsDigit(s[d]) THEN ParseFail
        ELSE LET e == IF s[d] = "0" THEN d ELSE DigitRunEnd(s, d)
                 n == DecimalValue(SubSeq(s, d, e))
             IN  Parsed(JInt(IF d = i THEN n ELSE 0 - n), e + 1)

RECURSIVE ParseValue(_, _)
RECURSIVE ParseItems(_, _, _)
RECURSIVE ParseMembers(_, _, _)

\* the scanner of one value at or after i
ParseValue(s, i0) ==
    LET i == SkipWs(s, i0)
    IN  IF i > Len(s) THEN ParseFail
        ELSE IF StartsWithAt(s, i, <<"n", "u", "l", "l">>)
             THEN Parsed(JNull, i + 4)
        ELSE IF StartsWithAt(s, i, <<"t", "r", "u", "e">>)
             THEN Parsed(JBool(TRUE), i + 4)
        ELSE IF StartsWithAt(s, i, <<"f", "a", "l", "s", "e">>)
             THEN Parsed(JBool(FALSE), i + 5)
        ELSE IF s[i] = "\"" THEN ParseString(s, i + 1, <<>>)
        ELSE IF s[i] = "["
             THEN LET j == SkipWs(s, i + 1)
                  IN  IF j <= Len(s) /\ s[j] = "]"
                      THEN Parsed(JList(<<>>), j + 1)
                      ELSE ParseItems(s, i + 1, <<>>)
        ELSE IF s[i] = "{"
             THEN LET j == SkipWs(s, i + 1)
                  IN  IF j <= Len(s) /\ s[j] = "}"
                      THEN Parsed(JDict(<<>>), j + 1)
                      ELSE ParseMembers(s, i + 1, <<>>)
        ELSE IF s[i] = "-" \/ IsDigit(s[i]) THEN ParseNumber(s, i)
        ELSE ParseFail

\* the items of an array after "[" or ","
ParseItems(s, i, acc) ==
    LET r == ParseValue(s, i)
    IN  IF ~r.ok THEN ParseFail
        ELSE LET j == SkipWs(s, r.pos)
             IN  IF j > Len(s) THEN ParseFail
                 ELSE IF s[j] = "," THEN ParseItems(s, j + 1, Append(acc, r.val))
                 ELSE IF s[j] = "]" THEN Parsed(JList(Append(acc, r.val)), j + 1)
                 ELSE ParseFail

\* the members of an object after "{" or ","
ParseMembers(s, i, acc) ==
    LET j == SkipWs(s, i)
    IN  IF j > Len(s) \/ s[j] # "\"" THEN ParseFail
        ELSE LET key == ParseString(s, j + 1, <<>>)
             IN  IF ~key.ok THEN ParseFail
                 ELSE LET c == SkipWs(s, key.pos)
                      IN  IF c > Len(s) \/ s[c] # ":" THEN ParseFail
                          ELSE LET r == ParseValue(s, c + 1)
                               IN  IF ~r.ok THEN ParseFail
                                   ELSE LET m == SkipWs(s, r.pos)
                                            d == DictSet(acc, key.val.v, r.val)
                                        IN  IF m > Len(s) THEN ParseFail
                                            ELSE IF s[m] = ","
                                                 THEN ParseMembers(s, m + 1, d)
                                            ELSE IF s[m] = "}"
                                                 THEN Parsed(JDict(d), m + 1)
                                            ELSE ParseFail

\* json.loads(s): [ok |-> FALSE] where Python raises ValueError
JsonLoads(s) ==
    LET r == ParseValue(s, 1)
    IN  IF r.ok /\ SkipWs(s, r.pos) > Len(s) THEN r ELSE ParseFail

RECURSIVE NatToChars(_)
NatToChars(n) ==
    IF n < 10 THEN <<Digits[n + 1]>>
    ELSE NatToChars(n \div 10) \o <<Digits[(n % 10) + 1]>>

\* repr of an int
IntToChars(n) == IF n < 0 THEN <<"-">> \o NatToChars(0 - n) ELSE NatToChars(n)

RECURSIVE EscapeChars(_)
\* the escapes of json.dumps inside a string
EscapeChars(s) ==
    IF s = <<>> THEN <<>>
    ELSE (IF s[1] \in {"\"", "\\"} THEN <<"\\", s[1]>>
          ELSE IF s[1] = "\n" THEN <<"\\", "n">>
          ELSE <<s[1]>>) \o EscapeChars(Tail(s))

QuoteString(s) == <<"\"">> \o EscapeChars(s) \o <<"\"">>

\* the newline and indentation json.dumps(indent=2) writes at a level
NewlineIndent(level) == <<"\n">> \o [n \in 1..(2 * level) |-> " "]

RECURSIVE DumpValue(_, _)
RECURSIVE DumpItems(_, _, _)
RECURSIVE DumpMembers(_, _, _)

\* json.dumps(value, indent=2) of a value nested at the given level
DumpValue(val, level) ==
    IF val.t = "null" THEN <<"n", "u", "l", "l">>
    ELSE IF val.t = "bool"
         THEN (IF val.v THEN <<"t", "r", "u", "e">> ELSE <<"f", "a", "l", "s", "e">>)
    ELSE IF val.t = "int" THEN IntToChars(val.v)
    ELSE IF val.t = "str" THEN QuoteString(val.v)
    ELSE IF val.t = "list"
         THEN (IF val.v = <<>> THEN <<"[", "]">>
               ELSE <<"[">> \o DumpItems(val.v, 1, level + 1)
                    \o NewlineIndent(level) \o <<"]">>)
    ELSE (IF val.v = <<>> THEN <<"{", "}">>
          ELSE <<"{">> \o DumpMembers(val.v, 1, level + 1)
               \o NewlineIndent(level) \o <<"}">>)

DumpItems(items, n, level) ==
    IF n > Len(items) THEN <<>>
    ELSE NewlineIndent(level) \o DumpValue(items[n], level)
         \o (IF n < Len(items) THEN <<",">> ELSE <<>>)
         \o DumpItems(items, n + 1, level)

DumpMembers(pairs, n, level) ==
    IF n > Len(pairs) THEN <<>>
    ELSE NewlineIndent(level) \o QuoteString(pairs[n].k) \o <<":", " ">>
         \o DumpValue(pairs[n].v, level)
         \o (IF n < Len(pairs) THEN <<",">> ELSE <<>>)
         \o DumpMembers(pairs, n + 1, level)

\* json.dumps(value, indent=2)
JsonDumps(val) == DumpValue(val, 0)

----------------------------------------------------------------------------
(* base64.encodebytes and base64.decodebytes, lines 80 and 92.  Bytes are *)
(* integers in 0..255.                                                    *)

B64Alphabet ==
    <<"A", "B", "C", "D", "E", "F", "G", "H", "I", "J", "K", "L", "M", "N",
      "O", "P", "Q", "R", "S", "T", "U", "V", "W", "X", "Y", "Z", "a", "b",
      "c", "d", "e", "f", "g", "h", "i", "j", "k", "l", "m", "n", "o", "p",
      "q", "r", "s", "t", "u", "v", "w", "x", "y", "z", "0", "1", "2", "3",
      "4", "5", "6", "7", "8", "9", "+", "/">>

\* base64.MAXBINSIZE: the bytes encoded on one line of 76 characters
MAXBINSIZE == 57

B64Char(n) == B64Alphabet[n + 1]

IsB64Char(c) == \E n \in 1..Len(B64Alphabet) : B64Alphabet[n] = c

B64Val(c) == (CHOOSE n \in 1..Len(B64Alphabet) : B64Alphabet[n] = c) - 1

RECURSIVE B64EncodeLine(_)
\* binascii.b2a_base64 without its newline
B64EncodeLine(b) ==
    IF b = <<>> THEN <<>>
    ELSE IF Len(b) = 1
         THEN <<B64Char(b[1] \div 4), B64Char((b[1] % 4) * 16), "=", "=">>
    ELSE IF Len(b) = 2
         THEN <<B64Char(b[1] \div 4),
                B64Char((b[1] % 4) * 16 + b[2] \div 16),
                B64Char((b[2] % 16) * 4), "=">>
    ELSE <<B64Char(b[1] \div 4),
           B64Char((b[1] % 4) * 16 + b[2] \div 16),
           B64Char((b[2] % 16) * 4 + b[3] \div 64),
           B64Char(b[3] % 64)>> \o B64EncodeLine(SubSeq(b, 4, Len(b)))

RECURSIVE B64EncodeBytes(_)
\* base64.encodebytes: one line and its newline per 57 bytes
B64EncodeBytes(b) ==
    IF b = <<>> THEN <<>>
    ELSE B64EncodeLine(Prefix(b, MAXBINSIZE)) \o <<"\n">>
         \o B64EncodeBytes(SubSeq(b, MAXBINSIZE + 1, Len(b)))

RECURSIVE B64Sextets(_)
\* the values of the alphabet characters of s (all else is skipped), up to
\* the padding
B64Sextets(s) ==
    IF s = <<>> \/ s[1] = "=" THEN <<>>
    ELSE IF IsB64Char(s[1]) THEN <<B64Val(s[1])>> \o B64Sextets(Tail(s))
    ELSE B64Sextets(Tail(s))

RECURSIVE B64Join(_)
\* the bytes of a run of sextets
B64Join(q) ==
    IF Len(q) < 2 THEN <<>>
    ELSE IF Len(q) = 2 THEN <<q[1] * 4 + q[2] \div 16>>
    ELSE IF Len(q) = 3
         THEN <<q[1] * 4 + q[2] \div 16, (q[2] % 16) * 16 + q[3] \div 4>>
    ELSE <<q[1] * 4 + q[2] \div 16,
           (q[2] % 16) * 16 + q[3] \div 4,
           (q[3] % 4) * 64 + q[4]>> \o B64Join(SubSeq(q, 5, Len(q)))

\* base64.decodebytes
B64DecodeBytes(s) == B64Join(B64Sextets(s))

JBytes(b) == [t |-> "bytes", v |-> b]

----------------------------------------------------------------------------
(* cache_get (lines 67-100) over the tables of get_db (lines 41-57), one  *)
(* sqlite connection per request (g._database), closed by                 *)
(* close_connection (lines 60-64).                                        *)
(*                                                                        *)
(* sqlite3 opens a transaction at the first UPDATE of a connection and    *)
(* holds the database's write lock until commit() or until the connection *)
(* is closed (which rolls the transaction back); a second connection's    *)
(* UPDATE waits for the lock and raises "database is locked" when its     *)
(* timeout runs out.  The SELECT of line 71 runs outside any transaction. *)

NProcs == 2

MaxCalls == 3

Procs == 1..NProcs

\* the keys the three routes build: 'search:' + title, 'image:' + url
Keys == {"search:a", "image:u"}

\* lines 209, 243, 289: GetImage passes type='bytes', the others 'json'
KeyType(k) == IF k = "image:u" THEN "bytes" ELSE "json"

\* what requests.get can return for the search request
JsonResponses ==
    { [raised |-> FALSE, status |-> 200, body |-> <<"{", "\"", "s", "u", "b", "j", "e", "c", "t", "s", "\"", ":", "[", "{", "\"", "i", "d", "\"", ":", "\"", "1", "\"", ",", "\"", "t", "\"", ":", "\"", "a", "\\", "\"", "b", "\"", ",", "\"", "y", "e", "a", "r", "\"", ":", "\"", "2", "0", "1", "3", "\"", "}", ",", "n", "u", "l", "l", "]", ",", "\"", "t", "o", "t", "a", "l", "\"", ":", "-", "1", "}">>],
      [raised |-> FALSE, status |-> 200, body |-> <<"[", "]">>],
      [raised |-> FALSE, status |-> 200, body |-> <<"{", "\"", "s", "u", "b", "j", "e", "c", "t", "s", "\"", ":">>],
      [raised |-> FALSE, status |-> 400, body |-> <<"{", "\"", "c", "o", "d", "e", "\"", ":", "1", "0", "0", "1", ",", "\"", "m", "s", "g", "\"", ":", "\"", "x", "\"", "}">>],
      [raised |-> FALSE, status |-> 500, body |-> <<"<", "h", "t", "m", "l", ">">>] }

\* what requests.get can return for the image request
ByteResponses ==
    { [raised |-> FALSE, status |-> 200, body |-> <<255, 216, 255, 224>>],
      [raised |-> FALSE, status |-> 200, body |-> <<0, 16>>],
      [raised |-> FALSE, status |-> 200, body |-> <<>>],
      [raised |-> FALSE, status |-> 404, body |-> <<60, 104, 49>>] }

ResponsesFor(type) == IF type = "json" THEN JsonResponses ELSE ByteResponses

\* requests.get raised (no response)
RaisedResponse == [raised |-> TRUE, status |-> 0, body |-> <<>>]

NoResponse == [raised |-> FALSE, status |-> 0, body |-> <<>>]

\* a table with no rows (CREATE TABLE IF NOT EXISTS, lines 45-54)
EmptyTable == [k \in {} |-> 0]

\* UPDATE stats SET value=value+1 WHERE key=?  (only rows that exist)
SqlIncrement(table, key) ==
    [k \in DOMAIN table |-> IF k = key THEN table[k] + 1 ELSE table[k]]

\* INSERT OR REPLACE INTO cache (key, value) VALUES (?, ?)
SqlInsertOrReplace(table, key, text) ==
    [k \in DOMAIN table \cup {key} |-> IF k = key THEN text ELSE table[k]]

\* SELECT value FROM cache WHERE key=? ... fetchone()
SqlSelect(table, key) ==
    IF key \in DOMAIN table THEN Some(table[key]) ELSE None

\* lines 77-82 with the branch of type 'str' taken
DecodeStoredAsStr(type, text) == [ok |-> TRUE, val |-> JStr(text)]

\* lines 77-80: the value of a stored row
DecodeStored(type, text) ==
    IF type = "json"
    THEN [ok |-> JsonLoads(text).ok, val |-> JsonLoads(text).val]
    ELSE [ok |-> TRUE, val |-> JBytes(B64DecodeBytes(text))]

\* lines 87-92 with a response that does not parse stored as null
MissOutcomeKeepsErrors(type, r) ==
    IF type = "json"
    THEN LET d == JsonLoads(r.body)
         IN  IF d.ok THEN [ok |-> TRUE, val |-> d.val, text |-> JsonDumps(d.val)]
             ELSE [ok |-> TRUE, val |-> JNull, text |-> JsonDumps(JNull)]
    ELSE [ok |-> TRUE, val |-> JBytes(r.body), text |-> B64EncodeBytes(r.body)]

\* lines 87-92: value and value_str of a response; r.json() may raise
MissOutcome(type, r) ==
    IF type = "json"
    THEN LET d == JsonLoads(r.body)
         IN  IF d.ok THEN [ok |-> TRUE, val |-> d.val, text |-> JsonDumps(d.val)]
             ELSE [ok |-> FALSE, val |-> JNull, text |-> <<>>]
    ELSE [ok |-> TRUE, val |-> JBytes(r.body), text |-> B64EncodeBytes(r.body)]

NoRequest == [key |-> "", type |-> ""]

NoReturn == [kind |-> "none", err |-> "", val |-> JNull]

Returned(val) == [kind |-> "value", err |-> "", val |-> val]

Raised(err) == [kind |-> "error", err |-> err, val |-> JNull]

NoHist == [before |-> EmptyTable, prior |-> None,
           afterFail |-> FALSE, fetched |-> FALSE]

\* q is between the entry of cache_get and its return
InCacheGet(q) == pc[q] \in {"selected", "counted", "fetching"}

NoRanking == [error |-> FALSE, subjects |-> <<>>]

RankOff ==
    /\ rfile = <<>>
    /\ value = <<>>
    /\ ranked = NoRanking
    /\ rpc = "off"

NormOff ==
    /\ filename = <<>>
    /\ parsed = [title |-> <<>>, year |-> None, season |-> None, episode |-> None]
    /\ reparsed = parsed
    /\ npc = "off"

CacheOff ==
    /\ cache = EmptyTable /\ stats = EmptyTable
    /\ writer = 0 /\ pending = EmptyTable
    /\ pc = [p \in Procs |-> "off"]
    /\ req = [p \in Procs |-> NoRequest]
    /\ row = [p \in Procs |-> None]
    /\ resp = [p \in Procs |-> NoResponse]
    /\ ret = [p \in Procs |-> NoReturn]
    /\ hist = [p \in Procs |-> NoHist]
    /\ calls = 0 /\ hits = 0
    /\ batch = [k \in Keys |-> [fetches |-> 0, writes |-> 0]]
    /\ first = [k \in Keys |-> None]
    /\ lastFailed = [k \in Keys |-> FALSE]

\* the store after get_db has created its two tables
CacheInit ==
    /\ cache = EmptyTable /\ stats = EmptyTable
    /\ writer = 0 /\ pending = EmptyTable
    /\ pc = [p \in Procs |-> "idle"]
    /\ req = [p \in Procs |-> NoRequest]
    /\ row = [p \in Procs |-> None]
    /\ resp = [p \in Procs |-> NoResponse]
    /\ ret = [p \in Procs |-> NoReturn]
    /\ hist = [p \in Procs |-> NoHist]
    /\ calls = 0 /\ hits = 0
    /\ batch = [k \in Keys |-> [fetches |-> 0, writes |-> 0]]
    /\ first = [k \in Keys |-> None]
    /\ lastFailed = [k \in Keys |-> FALSE]
    /\ NormOff /\ RankOff

\* lines 67-72: a route calls cache_get(key, func, type); get_db; SELECT
Request(p) ==
    /\ pc[p] = "idle"
    /\ calls < MaxCalls
    /\ \E k \in Keys :
          /\ req' = [req EXCEPT ![p] = [key |-> k, type |-> KeyType(k)]]
          /\ row' = [row EXCEPT ![p] = SqlSelect(cache, k)]
          /\ hits' = IF SqlSelect(cache, k) # None THEN hits + 1 ELSE hits
          /\ hist' = [hist EXCEPT ![p] = [before |-> cache, prior |-> first[k],
                                          afterFail |-> lastFailed[k],
                                          fetched |-> FALSE]]
          /\ batch' = IF \E q \in Procs \ {p} : InCacheGet(q) /\ req[q].key = k
                      THEN batch
                      ELSE [batch EXCEPT ![k] = [fetches |-> 0, writes |-> 0]]
    /\ pc' = [pc EXCEPT ![p] = "selected"]
    /\ calls' = calls + 1
    /\ UNCHANGED <<cache, stats, writer, pending, resp, ret, first, lastFailed>>
    /\ UNCHANGED <<nvars, rvars>>

\* Request when no other request is being handled
SeqRequest(p) ==
    /\ \A q \in Procs : pc[q] = "idle"
    /\ Request(p)

\* line 73: UPDATE stats ... 'num_query' (takes the write lock)
UpdateQuery(p) ==
    /\ pc[p] = "selected"
    /\ writer = 0
    /\ writer' = p
    /\ pending' = SqlIncrement(stats, "num_query")
    /\ pc' = [pc EXCEPT ![p] = "counted"]
    /\ UNCHANGED <<cache, stats, req, row, resp, ret, hist, calls, hits,
                   batch, first, lastFailed>>
    /\ UNCHANGED <<nvars, rvars>>

\* line 73 while another connection holds the lock until the timeout:
\* sqlite3.OperationalError
Busy(p) ==
    /\ pc[p] = "selected"
    /\ writer \notin {0, p}
    /\ ret' = [ret EXCEPT ![p] = Raised("locked")]
    /\ pc' = [pc EXCEPT ![p] = "done"]
    /\ UNCHANGED <<cache, stats, writer, pending, req, row, resp, hist,
                   calls, hits, batch, first, lastFailed>>
    /\ UNCHANGED <<nvars, rvars>>

\* lines 74-80: the row exists: UPDATE 'num_hit', commit, decode, return
Hit(p) ==
    /\ pc[p] = "counted"
    /\ row[p] # None
    /\ stats' = SqlIncrement(pending, "num_hit")
    /\ pending' = EmptyTable
    /\ writer' = 0
    /\ LET d == DecodeStored(req[p].type, row[p][1])
       IN  ret' = [ret EXCEPT ![p] = IF d.ok THEN Returned(d.val)
                                     ELSE Raised("decode")]
    /\ lastFailed' = [lastFailed EXCEPT ![req[p].key] = FALSE]
    /\ pc' = [pc EXCEPT ![p] = "done"]
    /\ UNCHANGED <<cache, req, row, resp, hist, calls, hits, batch, first>>
    /\ UNCHANGED <<nvars, rvars>>

\* lines 85-86: no row: r = func() is called
CallFetch(p) ==
    /\ pc[p] = "counted"
    /\ row[p] = None
    /\ hist' = [hist EXCEPT ![p].fetched = TRUE]
    /\ batch' = [batch EXCEPT ![req[p].key].fetches = @ + 1]
    /\ pc' = [pc EXCEPT ![p] = "fetching"]
    /\ UNCHANGED <<cache, stats, writer, pending, req, row, resp, ret,
                   calls, hits, first, lastFailed>>
    /\ UNCHANGED <<nvars, rvars>>

\* line 86: func() raises (a network error); cache_get has no handler
FetchRaises(p) ==
    /\ pc[p] = "fetching"
    /\ resp' = [resp EXCEPT ![p] = RaisedResponse]
    /\ ret' = [ret EXCEPT ![p] = Raised("fetch")]
    /\ lastFailed' = [lastFailed EXCEPT ![req[p].key] = TRUE]
    /\ pc' = [pc EXCEPT ![p] = "done"]
    /\ UNCHANGED <<cache, stats, writer, pending, req, row, hist, calls,
                   hits, batch, first>>
    /\ UNCHANGED <<nvars, rvars>>

\* lines 86-100: func() returns r; decode, INSERT OR REPLACE, commit,
\* return -- or r.json() raises and nothing is written
FetchReturns(p) ==
    /\ pc[p] = "fetching"
    /\ \E r \in ResponsesFor(req[p].type) :
          LET out == MissOutcome(req[p].type, r)
              k   == req[p].key
          IN  /\ resp' = [resp EXCEPT ![p] = r]
              /\ IF out.ok
                 THEN /\ cache' = SqlInsertOrReplace(cache, k, out.text)
                      /\ stats' = pending
                      /\ pending' = EmptyTable
                      /\ writer' = 0
                      /\ ret' = [ret EXCEPT ![p] = Returned(out.val)]
                      /\ batch' = [batch EXCEPT ![k].writes = @ + 1]
                      /\ first' = IF first[k] = None
                                  THEN [first EXCEPT ![k] = Some(out.val)]
                                  ELSE first
                      /\ lastFailed' = [lastFailed EXCEPT ![k] = FALSE]
                 ELSE /\ ret' = [ret EXCEPT ![p] = Raised("decode")]
                      /\ lastFailed' = [lastFailed EXCEPT ![k] = TRUE]
                      /\ UNCHANGED <<cache, stats, pending, writer, batch, first>>
    /\ pc' = [pc EXCEPT ![p] = "done"]
    /\ UNCHANGED <<req, row, hist, calls, hits>>
    /\ UNCHANGED <<nvars, rvars>>

\* lines 60-64: the request ends and close_connection closes the
\* connection; an open transaction is rolled back and its lock released
Teardown(p) ==
    /\ pc[p] = "done"
    /\ writer' = IF writer = p THEN 0 ELSE writer
    /\ pending' = IF writer = p THEN EmptyTable ELSE pending
    /\ pc' = [pc EXCEPT ![p] = "idle"]
    /\ req' = [req EXCEPT ![p] = NoRequest]
    /\ row' = [row EXCEPT ![p] = None]
    /\ resp' = [resp EXCEPT ![p] = NoResponse]
    /\ ret' = [ret EXCEPT ![p] = NoReturn]
    /\ hist' = [hist EXCEPT ![p] = NoHist]
    /\ UNCHANGED <<cache, stats, calls, hits, batch, first, lastFailed>>
    /\ UNCHANGED <<nvars, rvars>>

\* requests handled concurrently
Next ==
    \E p \in Procs :
        \/ Request(p)
        \/ UpdateQuery(p)
        \/ Busy(p)
        \/ Hit(p)
        \/ CallFetch(p)
        \/ FetchRaises(p)
        \/ FetchReturns(p)
        \/ Teardown(p)

Spec == CacheInit /\ [][Next]_vars

\* requests handled one after another
SeqNext ==
    \E p \in Procs :
        \/ SeqRequest(p)
        \/ UpdateQuery(p)
        \/ Hit(p)
        \/ CallFetch(p)
        \/ FetchRaises(p)
        \/ FetchReturns(p)
        \/ Teardown(p)

SeqSpec == CacheInit /\ [][SeqNext]_vars

----------------------------------------------------------------------------
(* The filenames the normalizer is run on: up to MaxChunks pieces. *)

MaxChunks == 3

Chunks ==
    { <<"a">>, <<"B">>, <<".">>, <<" ">>,
      <<".", "1", "9", "9", "9">>, <<" ", "2", "0", "0", "0">>,
      <<".", "1", "1">>, <<".", "S", "1">>, <<"e", "2">>,
      <<".", "s", "2", "0">>, <<".", "w", "e", "b">>,
      <<"x">>, <<".", "2", "6", "4">> }

RECURSIVE Concat(_)
Concat(ss) == IF ss = <<>> THEN <<>> ELSE ss[1] \o Concat(Tail(ss))

Filenames ==
    {Concat(cs) : cs \in UNION {[1..n -> Chunks] : n \in 0..MaxChunks}}

NoResult == [title |-> <<>>, year |-> None, season |-> None, episode |-> None]

NormInit ==
    /\ filename \in Filenames
    /\ parsed = NoResult
    /\ reparsed = NoResult
    /\ npc = "input"
    /\ RankOff /\ CacheOff

\* the caller runs get_title_from_filename(filename)
Normalize ==
    /\ npc = "input"
    /\ parsed' = get_title_from_filename(filename)
    /\ npc' = "parsed"
    /\ UNCHANGED <<filename, reparsed, rvars, cvars>>

\* and runs it again on the title it got
Renormalize ==
    /\ npc = "parsed"
    /\ reparsed' = get_title_from_filename(parsed.title)
    /\ npc' = "reparsed"
    /\ UNCHANGED <<filename, parsed, rvars, cvars>>

NormNext == Normalize \/ Renormalize

NormSpec == NormInit /\ [][NormNext]_vars

----------------------------------------------------------------------------
(* The searches the candidate loop is run on. *)

MaxCands == 3

Candidates ==
    { [id |-> 1, title |-> <<"x", "di", "yi", "ji">>,
       hasYear |-> TRUE, year |-> <<"2", "0", "1", "3">>],
      [id |-> 2, title |-> <<"y", "di", "yi", "ji">>,
       hasYear |-> TRUE, year |-> <<"2", "0", "1", "4">>],
      [id |-> 3, title |-> <<"x", "di", "er", "ji">>,
       hasYear |-> TRUE, year |-> <<"2", "0", "1", "5">>],
      [id |-> 4, title |-> <<"x", "di", "shi", "yi", "ji">>,
       hasYear |-> FALSE, year |-> <<>>],
      [id |-> 5, title |-> <<"x">>,
       hasYear |-> TRUE, year |-> <<>>] }

CandidateLists == UNION {[1..n -> Candidates] : n \in 0..MaxCands}

\* a title, then possibly a year, then possibly a season marker
RankFilenames ==
    {<<"a">> \o y \o s :
        y \in {<<>>, <<".", "2", "0", "1", "3">>},
        s \in {<<>>, <<".", "S", "0", "1">>, <<".", "s", "2">>,
               <<".", "s", "1", "1">>, <<".", "s", "2", "0">>}}

RankInit ==
    /\ rfile \in RankFilenames
    /\ value \in CandidateLists
    /\ ranked = NoRanking
    /\ rpc = "input"
    /\ NormOff /\ CacheOff

\* GetSearchResults(rfile) with value the cached or fetched search result
Search ==
    /\ rpc = "input"
    /\ ranked' = GetSearchResults(rfile, value)
    /\ rpc' = "done"
    /\ UNCHANGED <<rfile, value, nvars, cvars>>

RankNext == Search

RankSpec == RankInit /\ [][RankNext]_vars

----------------------------------------------------------------------------
(* Claims about get_title_from_filename, checked under NormSpec. *)

\* line 186: the tokens of the truncated name
TruncatedTokens(f) ==
    LET name == CanonicalName(f)
    IN  SplitName(Prefix(name,
            EndAfterSuffixes(name,
                EndAfterMatch(name, REGEX_SEASON_EPISODE(name)), 1)))

InYearRange(n) == YEAR_MIN <= n /\ n <= YEAR_MAX

\* C7: the year get_title_from_filename returns is absent or lies in
\* 1900..2100; when the last token of the truncated name is an integer
\* outside that range, the token stays in the title and the year is absent.
C7_YearAbsentOrInRange ==
    npc = "parsed" =>
        LET tokens == TruncatedTokens(filename)
            last   == IF tokens = <<>> THEN None ELSE PyInt(tokens[Len(tokens)])
        IN  /\ parsed.year = None \/ InYearRange(parsed.year[1])
            /\ (last # None /\ ~InYearRange(last[1])) =>
                   /\ parsed.title = JoinSpace(tokens)
                   /\ parsed.year = None

\* no two separators (dots or spaces) of the filename are adjacent
SingleSeparators(f) ==
    \A i \in 1..(Len(f) - 1) : ~(f[i] \in {".", " "} /\ f[i + 1] \in {".", " "})

\* the title has more than one token and its last token parses as an integer
EndsInInteger(title) ==
    LET tokens == SplitName(title)
    IN  Len(tokens) > 1 /\ PyInt(tokens[Len(tokens)]) # None

SameTitleNothingElse ==
    reparsed = [title |-> parsed.title, year |-> None,
                season |-> None, episode |-> None]

\* C9 as stated: for every filename, get_title_from_filename run on the
\* title it returned gives that same title with year, season and episode
\* all absent.
C9_Idempotent == npc = "reparsed" => SameTitleNothingElse

\* C9 amended: the same, for the filenames with no two adjacent separators
\* whose returned title has at most one token or a last token that is not
\* an integer.
C9_IdempotentAmended ==
    (/\ npc = "reparsed"
     /\ SingleSeparators(filename)
     /\ ~EndsInInteger(parsed.title)) => SameTitleNothingElse

\* a filename of that kind from which a year and a season were both stripped
C9_Witness ==
    /\ npc = "reparsed"
    /\ SingleSeparators(filename)
    /\ ~EndsInInteger(parsed.title)
    /\ parsed.year # None /\ parsed.season # None
    /\ parsed.title # <<>>
    /\ SameTitleNothingElse

----------------------------------------------------------------------------
(* Claims about the candidate loop of GetSearchResults, under RankSpec. *)

TargetYear == get_title_from_filename(rfile).year

TargetSeason == get_title_from_filename(rfile).season

IsCompatible(c) == YearCompatible(c, TargetYear)

\* the candidates that pass the year filter, in input order
Survivors == SelectSeq(value, IsCompatible)

HasMarker(c) == Contains(c.title, SeasonMarker(TargetSeason[1]))

LacksMarker(c) == ~HasMarker(c)

BagOfSeq(s) ==
    [x \in {s[i] : i \in 1..Len(s)} |-> Cardinality({i \in 1..Len(s) : s[i] = x})]

\* C6: with a season present (one the numeral table holds), the output is
\* the surviving candidates whose title contains the season's marker, in
\* input order, followed by those whose title does not, in input order.
C6_StablePartition ==
    (/\ rpc = "done"
     /\ TargetSeason # None
     /\ ~SeasonIndexError(TargetSeason[1])) =>
        /\ ~ranked.error
        /\ ranked.subjects =
               SelectSeq(Survivors, HasMarker) \o SelectSeq(Survivors, LacksMarker)

\* C8: for every candidate list and target year there is an output, and it
\* holds exactly the year-compatible input candidates, once each (so no
\* element absent from the input and no more elements than the input).
C8_YearFilter ==
    rpc = "done" =>
        /\ ~ranked.error
        /\ BagOfSeq(ranked.subjects) = BagOfSeq(Survivors)
        /\ Len(ranked.subjects) <= Len(value)

\* the year filter alone: a search that ends with a list has kept exactly
\* the year-compatible candidates (it ends with IndexError instead when the
\* season is 20 or more and a candidate passes the filter)
YearFilterWhenRanked ==
    (rpc = "done" /\ ~ranked.error) =>
        BagOfSeq(ranked.subjects) = BagOfSeq(Survivors)

\* C10: for every season get_title_from_filename can extract, the numeral
\* table is never indexed outside 0..19: the search ends with a ranked
\* list, not with an index error.
C10_NoIndexError == rpc = "done" => ~ranked.error

----------------------------------------------------------------------------
(* Claims about cache_get: C1 under Spec (requests handled concurrently), *)
(* C2 - C5 under SeqSpec (one request at a time).                         *)

\* C1: among lookups of one key that overlap and began while the key had
\* no stored entry, func is invoked at most once and the entry is written
\* at most once.
C1_SingleFlight ==
    \A k \in Keys : batch[k].fetches <= 1 /\ batch[k].writes <= 1

\* SELECT value FROM stats WHERE key=?, a missing row read as 0
CounterValue(name) == IF name \in DOMAIN stats THEN stats[name] ELSE 0

\* C2: from freshly created tables, whenever no lookup is in progress,
\* num_query is the number of lookups made and num_hit the number of
\* lookups that found their key stored.
C2_Counters ==
    (\A p \in Procs : pc[p] = "idle") =>
        /\ CounterValue("num_query") = calls
        /\ CounterValue("num_hit") = hits

\* func raised, or r.json() raises on what func returned
FetchOrDecodeFails(p) ==
    /\ hist[p].fetched
    /\ \/ resp[p].raised
       \/ req[p].type = "json" /\ ~JsonLoads(resp[p].body).ok

\* C3: when a lookup misses and func or the decoding of its response
\* raises, the error reaches the caller and the entry table is as it was
\* before the call, with no row for the key; and the lookup that follows a
\* failed lookup of the same key calls func again.
C3_NoNegativeCaching ==
    \A p \in Procs :
        pc[p] = "done" =>
            /\ FetchOrDecodeFails(p) =>
                   /\ ret[p].kind = "error"
                   /\ cache = hist[p].before
                   /\ req[p].key \notin DOMAIN cache
            /\ hist[p].afterFail => hist[p].fetched

\* a lookup that follows a failed lookup of its key has called func again,
\* and failed again in the decoding of the response
C3_Witness ==
    \E p \in Procs :
        /\ pc[p] = "done"
        /\ hist[p].afterFail /\ hist[p].fetched
        /\ ~resp[p].raised
        /\ ret[p] = Raised("decode")
        /\ cache = hist[p].before
        /\ req[p].key \notin DOMAIN cache

\* C4: when func returns a response with a non-success status, the lookup
\* fails and no entry is stored under the key.
C4_ErrorStatusNotCached ==
    \A p \in Procs :
        (/\ pc[p] = "done"
         /\ hist[p].fetched
         /\ ~resp[p].raised
         /\ resp[p].status >= 400) =>
            /\ ret[p].kind = "error"
            /\ req[p].key \notin DOMAIN cache

\* C5: a lookup of a key that an earlier lookup has returned a value for
\* does not call func and returns that same value.
C5_ReadThrough ==
    \A p \in Procs :
        (pc[p] = "done" /\ hist[p].prior # None) =>
            /\ ~hist[p].fetched
            /\ ret[p].kind = "value"
            /\ ret[p].val = hist[p].prior[1]

\* both keys have been fetched, and a later lookup of the search key has
\* returned the first lookup's value: a dict re-parsed from the stored text
C5_Witness ==
    \E p \in Procs :
        /\ pc[p] = "done"
        /\ \A k \in Keys : first[k] # None
        /\ Len(first["image:u"][1].v) > 0
        /\ req[p].key = "search:a"
        /\ hist[p].prior # None
        /\ ~hist[p].fetched
        /\ ret[p] = Returned(hist[p].prior[1])
        /\ ret[p].val.t = "dict"

====
